---- MODULE Spec2Model ----
(***************************************************************************)
(* A model of candle's named-variable store (VarMap), of the VarBuilder    *)
(* that resolves dotted tensor names against one of five backing sources,  *)
(* and of the safetensors files the store is saved to and loaded from.     *)
(*   src/candle-nn/src/var_builder.rs   VarMap, Tensors, TensorData,       *)
(*                                      VarBuilder                         *)
(*   src/candle-core/src/device.rs      Device                             *)
(***************************************************************************)
EXTENDS Integers, Sequences, FiniteSets, TLC

VARIABLES
    stores,     \* store handle -> the HashMap<String, Var> behind its Arc<Mutex<..>>
    files,      \* file path -> NoFile, or the safetensors container stored there
    handles,    \* the VarBuilders alive: handles[k+1] was pushed from handles[k]
    last,       \* the last call made: its arguments and what it returned
    threads,    \* thread -> the call it is making, where it stands in it, its locals
    mutex       \* store handle -> the thread that holds its Mutex, or Free

vars == <<stores, files, handles, last, threads, mutex>>

----------------------------------------------------------------------------
(* Bounds of the model.                                                    *)

\* Longest chain of push_prefix calls made on a root VarBuilder.
MaxPrefix == 2
\* The VarBuilders of SpecBuilders are not asked to create more than this many
\* variables.
MaxVars == 1
\* The threads that use a store at the same time.
MaxThreads == 2

----------------------------------------------------------------------------
(* Values: devices, dtypes, shapes, tensors.                               *)

Cpu == [kind |-> "Cpu"]
Cuda(ordinal) == [kind |-> "Cuda", gpu_id |-> ordinal]
Devices == {Cpu, Cuda(0)}

\* The n-th CudaDevice that Device::new_cuda(ordinal) made: every call makes a
\* new one, bound to the GPU of that ordinal.
NewCuda(ordinal, n) == [kind |-> "Cuda", gpu_id |-> ordinal, nth |-> n]

\* CudaDevice::same_device: the two are bound to the same GPU.
CudaSameDevice(lhs, rhs) == lhs.gpu_id = rhs.gpu_id

\* Device::same_device as it would be if it compared the variants only.
SameDeviceByKind(lhs, rhs) == lhs.kind = rhs.kind

\* Device::same_device.
SameDevice(lhs, rhs) ==
    CASE lhs.kind = "Cpu" /\ rhs.kind = "Cpu" -> TRUE
      [] lhs.kind = "Cuda" /\ rhs.kind = "Cuda" -> CudaSameDevice(lhs, rhs)
      [] OTHER -> FALSE

DTypes == {"U8", "U32"}
SizeInBytes(dtype) == IF dtype = "U8" THEN 1 ELSE 4

Shapes == {<<2>>, <<1, 2>>}

RECURSIVE ElemCount(_)
ElemCount(shape) ==
    IF shape = <<>> THEN 1 ELSE Head(shape) * ElemCount(Tail(shape))

\* The empty HashMap.
EmptyMap == [k \in {} |-> 0]

Insert(m, k, v) == [j \in DOMAIN m \cup {k} |-> IF j = k THEN v ELSE m[j]]

\* A tensor in memory.  id tells the Vars of one store apart: a Var is numbered
\* by its rank of creation in its store, and 0 marks a temporary that is no Var.
MkTensor(id, shape, dtype, device, data) ==
    [id |-> id, shape |-> shape, dtype |-> dtype, device |-> device, data |-> data]

\* Result<T>.
Ok(v) == [ok |-> TRUE, val |-> v]
Err(e) == [ok |-> FALSE, err |-> e]

\* candle::bail!(...): Error::Msg with the formatted text; the values the
\* format string interpolates are kept as fields.
Msg(text, path, expected, got) ==
    [kind |-> "Msg", msg |-> text, path |-> path, expected |-> expected, got |-> got]

NoShape == <<0>>

CannotFindTensor(path) == [kind |-> "CannotFindTensor", path |-> path]

UnexpectedShape(path, expected, got) ==
    [kind |-> "UnexpectedShape", msg |-> "shape mismatch for " \o path,
     path |-> path, expected |-> expected, got |-> got]

IoError(path) == [kind |-> "Io", path |-> path]

----------------------------------------------------------------------------
(* The safetensors format: little-endian element bytes, tagged with dtype  *)
(* and shape.  A container maps names to such views and has no device.     *)

RECURSIVE Pow256(_)
Pow256(n) == IF n = 0 THEN 1 ELSE 256 * Pow256(n - 1)

ToLeBytes(v, n) == [i \in 1..n |-> (v \div Pow256(i - 1)) % 256]

RECURSIVE FromLeBytes(_)
FromLeBytes(bytes) ==
    IF bytes = <<>> THEN 0 ELSE Head(bytes) + 256 * FromLeBytes(Tail(bytes))

RECURSIVE Flatten(_)
Flatten(seqs) == IF seqs = <<>> THEN <<>> ELSE Head(seqs) \o Flatten(Tail(seqs))

\* Tensor -> view, as serialize_to_file stores one tensor.
Serialize(t) ==
    [dtype |-> t.dtype, shape |-> t.shape,
     data |-> Flatten([i \in 1..Len(t.data) |-> ToLeBytes(t.data[i], SizeInBytes(t.dtype))])]

\* view.load(device): view -> a new tensor on device.
ViewLoad(view, device) ==
    LET n == SizeInBytes(view.dtype)
    IN  MkTensor(0, view.shape, view.dtype, device,
                 [i \in 1..(Len(view.data) \div n) |->
                     FromLeBytes(SubSeq(view.data, (i - 1) * n + 1, i * n))])

\* What a path of the file system holds.
NoFile == [exists |-> FALSE]
FileOf(tensors) == [exists |-> TRUE, tensors |-> tensors]

----------------------------------------------------------------------------
(* Init (candle_nn::Init) and Var.                                         *)

Const(v) == [kind |-> "Const", v |-> v]
Inits == {Const(0), Const(1)}

\* init.var(shape, dtype, device): a new Var filled by the policy.
InitVar(init, id, shape, dtype, device) ==
    MkTensor(id, shape, dtype, device, [i \in 1..ElemCount(shape) |-> init.v])

\* var.set(&src): replaces the contents in place; the Var keeps its identity,
\* shape, dtype and device, and a source of another shape or dtype is refused.
VarSet(var, src) ==
    IF var.shape # src.shape \/ var.dtype # src.dtype
    THEN Err([kind |-> "CannotSetVar"])
    ELSE Ok([var EXCEPT !.data = src.data])

----------------------------------------------------------------------------
(* VarMap.                                                                 *)

StoreIds == {"A", "B"}
FileNames == {"f", "nodir/f"}
\* A path whose directory does not exist: nothing can be read or written there.
Unusable(file) == file = "nodir/f"

Orders(S) ==
    {o \in [1..Cardinality(S) -> S] : \A i, j \in 1..Cardinality(S) : o[i] = o[j] => i = j}

\* VarMap::get as it would be if it initialised the entry on every call.
VarMapGetReinit(m, shape, path, init, dtype, device) ==
    IF path \in DOMAIN m /\ shape # m[path].shape
    THEN [map |-> m, res |-> Err(Msg("shape mismatch on", path, shape, m[path].shape))]
    ELSE LET var == InitVar(init, Cardinality(DOMAIN m) + 1, shape, dtype, device)
         IN  [map |-> Insert(m, path, var), res |-> Ok(var)]

\* VarMap::get as it would be if a new shape replaced the entry.
VarMapGetOverwrite(m, shape, path, init, dtype, device) ==
    IF path \in DOMAIN m /\ shape = m[path].shape
    THEN [map |-> m, res |-> Ok(m[path])]
    ELSE LET var == InitVar(init, Cardinality(DOMAIN m) + 1, shape, dtype, device)
         IN  [map |-> Insert(m, path, var), res |-> Ok(var)]

\* VarMap::get on the locked map m: [map, res], the map afterwards and the
\* value returned.
VarMapGetOutcome(m, shape, path, init, dtype, device) ==
    IF path \in DOMAIN m
    THEN IF shape # m[path].shape
         THEN [map |-> m, res |-> Err(Msg("shape mismatch on", path, shape, m[path].shape))]
         ELSE [map |-> m, res |-> Ok(m[path])]
    ELSE LET var == InitVar(init, Cardinality(DOMAIN m) + 1, shape, dtype, device)
         IN  [map |-> Insert(m, path, var), res |-> Ok(var)]

\* The loop of VarMap::load over the entries of m in the order the HashMap
\* yields them, from entry i on: [map, res, visited].
RECURSIVE LoadLoop(_, _, _, _)
LoadLoop(m, order, i, data) ==
    IF i > Len(order)
    THEN [map |-> m, res |-> Ok("unit"), visited |-> i - 1]
    ELSE LET name == order[i]
         IN  IF name \notin DOMAIN data
             THEN [map |-> m, visited |-> i - 1,
                   res |-> Err(Msg("cannot find tensor for", name, NoShape, NoShape))]
             ELSE LET set == VarSet(m[name], ViewLoad(data[name], m[name].device))
                  IN  IF set.ok
                      THEN LoadLoop([m EXCEPT ![name] = set.val], order, i + 1, data)
                      ELSE [map |-> m, visited |-> i - 1,
                            res |-> Err(Msg("error setting", name, NoShape, NoShape))]

\* VarMap::load as it would be if it also kept the tensors of the file that
\* the map does not hold yet.
VarMapLoadAdding(m, order, data) ==
    LET out == LoadLoop(m, order, 1, data)
    IN  [out EXCEPT !.map =
            [k \in DOMAIN m \cup DOMAIN data |->
                IF k \in DOMAIN m THEN out.map[k]
                ELSE [ViewLoad(data[k], Cpu) EXCEPT !.id = Cardinality(DOMAIN m) + 1]]]

\* VarMap::load as it would be if it undid its writes when it fails.
VarMapLoadAtomic(m, order, data) ==
    LET out == LoadLoop(m, order, 1, data)
    IN  IF out.res.ok THEN out ELSE [out EXCEPT !.map = m]

\* VarMap::load as it would be if it passed over the names the file lacks.
RECURSIVE LoadLoopSkipping(_, _, _, _)
LoadLoopSkipping(m, order, i, data) ==
    IF i > Len(order)
    THEN [map |-> m, res |-> Ok("unit"), visited |-> i - 1]
    ELSE LET name == order[i]
         IN  IF name \notin DOMAIN data
             THEN LoadLoopSkipping(m, order, i + 1, data)
             ELSE LET set == VarSet(m[name], ViewLoad(data[name], m[name].device))
                  IN  IF set.ok
                      THEN LoadLoopSkipping([m EXCEPT ![name] = set.val], order, i + 1, data)
                      ELSE [map |-> m, visited |-> i - 1,
                            res |-> Err(Msg("error setting", name, NoShape, NoShape))]

VarMapLoadSkipping(m, order, data) == LoadLoopSkipping(m, order, 1, data)

\* VarMap::load on the locked map m, the HashMap yielding its entries in order.
VarMapLoadOutcome(m, order, data) == LoadLoop(m, order, 1, data)

\* VarMap::save as it would be if it wrote only the tensors that live on the host.
VarMapSaveHostOnly(m) ==
    [k \in {j \in DOMAIN m : m[j].device = Cpu} |-> Serialize(m[k])]

\* What VarMap::save writes for the locked map m.
VarMapSaveOutcome(m) == [k \in DOMAIN m |-> Serialize(m[k])]

VarMapGet(s, shape, path, init, dtype, device) ==
    LET out == VarMapGetOutcome(stores[s], shape, path, init, dtype, device)
    IN  /\ stores' = [stores EXCEPT ![s] = out.map]
        /\ last' = [op |-> "VarMap::get", store |-> s, path |-> path, shape |-> shape,
                    init |-> init, dtype |-> dtype, device |-> device,
                    pre |-> stores, res |-> out.res]
        /\ UNCHANGED <<files, handles, threads, mutex>>

VarMapAllVars(s) ==
    /\ \E order \in Orders(DOMAIN stores[s]) :
          last' = [op |-> "VarMap::all_vars", store |-> s, pre |-> stores,
                   res |-> [i \in 1..Len(order) |-> stores[s][order[i]]]]
    /\ UNCHANGED <<stores, files, handles, threads, mutex>>

VarMapSave(s, file) ==
    /\ IF Unusable(file)
       THEN /\ files' = files
            /\ last' = [op |-> "VarMap::save", store |-> s, file |-> file,
                        pre |-> stores, res |-> Err(IoError(file))]
       ELSE /\ files' = [files EXCEPT ![file] = FileOf(VarMapSaveOutcome(stores[s]))]
            /\ last' = [op |-> "VarMap::save", store |-> s, file |-> file,
                        pre |-> stores, res |-> Ok("unit")]
    /\ UNCHANGED <<stores, handles, threads, mutex>>

VarMapLoad(s, file) ==
    /\ IF ~files[file].exists
       THEN /\ stores' = stores
            /\ last' = [op |-> "VarMap::load", store |-> s, file |-> file, pre |-> stores,
                        order |-> <<>>, visited |-> 0, res |-> Err(IoError(file))]
       ELSE \E order \in Orders(DOMAIN stores[s]) :
               LET out == VarMapLoadOutcome(stores[s], order, files[file].tensors)
               IN  /\ stores' = [stores EXCEPT ![s] = out.map]
                   /\ last' = [op |-> "VarMap::load", store |-> s, file |-> file,
                               pre |-> stores, order |-> order,
                               visited |-> out.visited, res |-> out.res]
    /\ UNCHANGED <<files, handles, threads, mutex>>

----------------------------------------------------------------------------
(* Tensors, TensorData: the five backing sources of a VarBuilder.          *)

View(dtype, shape, elems) == Serialize(MkTensor(0, shape, dtype, Cpu, elems))

\* from_safetensors as it would be if a name already routed kept its first
\* container.
RECURSIVE RoutingFirstWins(_, _, _)
RoutingFirstWins(safetensors, index, routing) ==
    IF index >= Len(safetensors)
    THEN routing
    ELSE RoutingFirstWins(safetensors, index + 1,
                 [k \in DOMAIN routing \cup DOMAIN safetensors[index + 1] |->
                    IF k \in DOMAIN routing THEN routing[k] ELSE index])

\* TensorData::from_safetensors: the routing map sends every name to the
\* (0-based) index of the last container that holds it.
RECURSIVE Routing(_, _, _)
Routing(safetensors, index, routing) ==
    IF index >= Len(safetensors)
    THEN routing
    ELSE Routing(safetensors, index + 1,
                 [k \in DOMAIN routing \cup DOMAIN safetensors[index + 1] |->
                    IF k \in DOMAIN safetensors[index + 1] THEN index ELSE routing[k]])

FromSafetensors(safetensors, dtype, device) ==
    [tensors |-> [kind |-> "SafeTensorWithRouting",
                  routing |-> Routing(safetensors, 0, EmptyMap),
                  safetensors |-> safetensors],
     dtype |-> dtype, device |-> device]

DataZeros(dtype, device) ==
    [tensors |-> [kind |-> "Zeros"], dtype |-> dtype, device |-> device]

FromTensors(ts, dtype, device) ==
    [tensors |-> [kind |-> "TensorMap", ts |-> ts], dtype |-> dtype, device |-> device]

FromNpz(npz, dtype, device) ==
    [tensors |-> [kind |-> "Npz", npz |-> npz], dtype |-> dtype, device |-> device]

\* from_varmap as it would be if it copied the map instead of cloning the
\* handle: the VarBuilder then works on a map of its own.
FromVarMapCopy(varmap, dtype, device) ==
    [tensors |-> [kind |-> "VarMap", varmap |-> "B"], dtype |-> dtype, device |-> device]

\* from_varmap keeps varmap.clone(): a handle on the same store.
FromVarMap(varmap, dtype, device) ==
    [tensors |-> [kind |-> "VarMap", varmap |-> varmap], dtype |-> dtype, device |-> device]

----------------------------------------------------------------------------
(* VarBuilder: a shared TensorData and a prefix.  The field data is the   *)
(* Arc: it names a TensorData of the heap, which never changes.            *)

Segments == {"a", "b"}
Names == {"w"}

\* The containers given to from_safetensors; "w" is in both.  No tensor holds
\* the same element twice.
StContainers ==
    << [k \in {"w", "a.w", "m", "t"} |->
          CASE k = "w" -> View("U8", <<2, 2>>, <<1, 2, 3, 4>>)
            [] k = "a.w" -> View("U8", <<2>>, <<7, 8>>)
            [] k = "m" -> View("U8", <<2, 4>>, <<1, 2, 3, 4, 5, 6, 7, 8>>)
            [] k = "t" -> View("U8", <<2, 2, 2>>, <<11, 12, 13, 14, 15, 16, 17, 18>>)],
       [k \in {"w", "o"} |->
          IF k = "w" THEN View("U32", <<1, 2>>, <<258, 3>>)
          ELSE View("U32", <<3, 2>>, <<21, 22, 23, 24, 25, 300>>)] >>

\* The map given to from_tensors.
TensorMapSrc ==
    [k \in {"w", "a.w"} |->
        IF k = "w" THEN MkTensor(0, <<2>>, "U8", Cpu, <<1, 1>>)
        ELSE MkTensor(0, <<1, 2>>, "U32", Cuda(0), <<2, 3>>)]

\* The arrays of the archive given to from_npz.
NpzSrc ==
    [k \in {"w", "b.w"} |->
        IF k = "w" THEN MkTensor(0, <<1, 2>>, "U8", Cpu, <<4, 5>>)
        ELSE MkTensor(0, <<2>>, "U8", Cpu, <<6, 6>>)]

\* The TensorData the constructors of the model allocate, by name.
Heap ==
    [d \in {"safetensors", "zeros", "tensors", "varmap", "npz"} |->
        CASE d = "safetensors" -> FromSafetensors(StContainers, "U32", Cuda(0))
          [] d = "zeros" -> DataZeros("U8", Cpu)
          [] d = "tensors" -> FromTensors(TensorMapSrc, "U8", Cpu)
          [] d = "varmap" -> FromVarMap("A", "U8", Cpu)
          [] d = "npz" -> FromNpz(NpzSrc, "U8", Cpu)]

Root(data) == [data |-> data, path |-> <<>>]

\* push_prefix: the receiver is borrowed and not changed.
PushPrefixOf(vb, s) == [data |-> vb.data, path |-> Append(vb.path, s)]

\* [String]::join(sep).
RECURSIVE Join(_, _)
Join(strs, sep) ==
    IF strs = <<>> THEN ""
    ELSE IF Len(strs) = 1 THEN strs[1]
    ELSE strs[1] \o sep \o Join(Tail(strs), sep)

\* VarBuilder::path as it would be if the name came first.
PathOfNameFirst(vb, tensor_name) ==
    IF vb.path = <<>>
    THEN tensor_name
    ELSE Join(<<tensor_name, Join(vb.path, ".")>>, ".")

\* VarBuilder::path.
PathOf(vb, tensor_name) ==
    IF vb.path = <<>>
    THEN tensor_name
    ELSE Join(<<Join(vb.path, "."), tensor_name>>, ".")

\* Tensor::zeros as it would be if it filled the tensor with ones.
TensorOnes(shape, dtype, device) ==
    MkTensor(0, shape, dtype, device, [i \in 1..ElemCount(shape) |-> 1])

\* Tensor::zeros(shape, dtype, device).contiguous().
TensorZeros(shape, dtype, device) ==
    MkTensor(0, shape, dtype, device, [i \in 1..ElemCount(shape) |-> 0])

\* tensor.to_dtype(dtype): an integer cast, which wraps when it narrows (the
\* elements of the model are below 2^31, so a cast to U32 keeps them).
ToDType(t, dtype) ==
    [t EXCEPT !.dtype = dtype,
              !.data = [i \in 1..Len(t.data) |->
                          IF dtype = "U8" THEN t.data[i] % 256 ELSE t.data[i]]]

\* The match of VarBuilder::get on the backing source: the tensor found under
\* path, before its shape is looked at.  st is the state of the stores.
Resolve(data, st, s, path) ==
    LET src == data.tensors
    IN  CASE src.kind = "Zeros" -> Ok(TensorZeros(s, data.dtype, data.device))
          [] src.kind = "TensorMap" ->
                IF path \in DOMAIN src.ts THEN Ok(src.ts[path])
                ELSE Err(CannotFindTensor(path))
          [] src.kind = "VarMap" ->
                IF path \in DOMAIN st[src.varmap] THEN Ok(st[src.varmap][path])
                ELSE Err(CannotFindTensor(path))
          [] src.kind = "Npz" ->
                IF path \in DOMAIN src.npz THEN Ok(src.npz[path])
                ELSE Err(CannotFindTensor(path))
          [] src.kind = "SafeTensorWithRouting" ->
                IF path \notin DOMAIN src.routing
                THEN Err(CannotFindTensor(path))
                ELSE LET st_file == src.safetensors[src.routing[path] + 1]
                     IN  IF path \notin DOMAIN st_file
                         THEN Err([kind |-> "SafeTensor", path |-> path])
                         ELSE Ok(ToDType(ViewLoad(st_file[path], data.device), data.dtype))

\* VarBuilder::get as it would be if a VarMap-backed builder created what it
\* does not find, and the other builders fell back to zeros.
VBGetCreating(vb, st, s, tensor_name) ==
    LET path == PathOf(vb, tensor_name)
        data == Heap[vb.data]
        tensor == Resolve(data, st, s, path)
    IN  [path |-> path,
         res |-> IF ~tensor.ok THEN Ok(TensorZeros(s, data.dtype, data.device))
                 ELSE IF tensor.val.shape # s
                      THEN Err(UnexpectedShape(path, s, tensor.val.shape))
                      ELSE tensor]

\* VarBuilder::get as it would be without the check of the shape.
VBGetUnchecked(vb, st, s, tensor_name) ==
    LET path == PathOf(vb, tensor_name)
    IN  [path |-> path, res |-> Resolve(Heap[vb.data], st, s, path)]

\* VarBuilder::get: [res, path], the value returned and the key looked up.
VBGetOutcome(vb, st, s, tensor_name) ==
    LET path == PathOf(vb, tensor_name)
        tensor == Resolve(Heap[vb.data], st, s, path)
    IN  [path |-> path,
         res |-> IF ~tensor.ok THEN tensor
                 ELSE IF tensor.val.shape # s
                      THEN Err(UnexpectedShape(path, s, tensor.val.shape))
                      ELSE tensor]

\* VarBuilder::get_or_init as it would be if it fell back on init whenever a
\* source other than a VarMap does not hold the tensor.
VBGetOrInitFallback(vb, st, s, tensor_name, init) ==
    LET path == PathOf(vb, tensor_name)
        data == Heap[vb.data]
    IN  IF data.tensors.kind = "VarMap"
        THEN LET varmap == data.tensors.varmap
                 out == VarMapGetOutcome(st[varmap], s, path, init, data.dtype, data.device)
             IN  [path |-> path, res |-> out.res, st |-> [st EXCEPT ![varmap] = out.map]]
        ELSE LET out == VBGetOutcome(vb, st, s, tensor_name)
             IN  [path |-> path, st |-> st,
                  res |-> IF out.res.ok THEN out.res
                          ELSE Ok(InitVar(init, 0, s, data.dtype, data.device))]

\* VarBuilder::get_or_init: [res, path, st], st the stores afterwards.
VBGetOrInitOutcome(vb, st, s, tensor_name, init) ==
    IF Heap[vb.data].tensors.kind = "VarMap"
    THEN LET path == PathOf(vb, tensor_name)
             data == Heap[vb.data]
             varmap == data.tensors.varmap
             out == VarMapGetOutcome(st[varmap], s, path, init, data.dtype, data.device)
         IN  [path |-> path, res |-> out.res, st |-> [st EXCEPT ![varmap] = out.map]]
    ELSE LET out == VBGetOutcome(vb, st, s, tensor_name)
         IN  [path |-> out.path, res |-> out.res, st |-> st]

\* A call that does not return: the thread panics.
Panic(why) == [ok |-> FALSE, err |-> [kind |-> "Panic", msg |-> why]]

\* The bytes view.slice(start..stop) yields: rows start..stop-1.
SliceDim0(view, start, stop) ==
    LET row == Len(view.data) \div view.shape[1]
    IN  SubSeq(view.data, start * row + 1, stop * row)

\* view.slice((.., start..stop)) as it would be if it read the columns as one
\* range of bytes, the way the rows are read.
SliceDim1Contiguous(view, start, stop) ==
    LET chunk == Len(view.data) \div view.shape[2]
    IN  SubSeq(view.data, start * chunk + 1, stop * chunk)

\* The bytes view.slice((.., start..stop)) yields: for every row in order, the
\* bytes of its columns start..stop-1.
SliceDim1(view, start, stop) ==
    LET row == Len(view.data) \div view.shape[1]
        col == row \div view.shape[2]
    IN  Flatten([r \in 1..view.shape[1] |->
                    SubSeq(view.data, (r - 1) * row + start * col + 1,
                                      (r - 1) * row + stop * col)])

\* Tensor::from_raw_buffer(raw, dtype, shape, device).
FromRawBuffer(raw, dtype, shape, device) ==
    ViewLoad([dtype |-> dtype, shape |-> shape, data |-> raw], device)

\* A step of get_sharded that returns before any byte of the view is sliced.
Unread(res) == [res |-> res, raw |-> <<>>]

\* The SafeTensorWithRouting arm of get_sharded as it would be if it cast the
\* shard to the dtype of the VarBuilder, the way get does.
ShardOfCast(data, view, tensor_name, dim, rank, world_size) ==
    LET shape == view.shape
    IN  IF dim >= Len(shape) THEN Unread(Panic("index out of bounds"))
        ELSE IF world_size = 0 THEN Unread(Panic("remainder with a divisor of zero"))
        ELSE
        LET size == shape[dim + 1]
            block_size == size \div world_size
            start == rank * block_size
            stop == (rank + 1) * block_size
        IN  IF size % world_size # 0
            THEN Unread(Err([kind |-> "ShapeMismatchSplit", shape |-> shape,
                             dim |-> dim, n_parts |-> world_size]))
            ELSE IF dim > 1
            THEN Unread(Err(Msg("Get sharded on dimensions != 0 or 1", "", NoShape, NoShape)))
            ELSE IF start >= size \/ stop > size
            THEN Unread(Err(Msg("Cannot slice tensor", tensor_name, shape, NoShape)))
            ELSE LET raw == IF dim = 0 THEN SliceDim0(view, start, stop)
                            ELSE SliceDim1(view, start, stop)
                 IN  [res |-> Ok(ToDType(FromRawBuffer(raw, view.dtype,
                                            [shape EXCEPT ![dim + 1] = block_size],
                                            data.device), data.dtype)),
                      raw |-> raw]

\* The SafeTensorWithRouting arm of get_sharded as it would be if it rounded
\* the size of the block down instead of refusing an uneven split.
ShardOfRounding(data, view, tensor_name, dim, rank, world_size) ==
    LET shape == view.shape
    IN  IF dim >= Len(shape) THEN Unread(Panic("index out of bounds"))
        ELSE IF world_size = 0 THEN Unread(Panic("remainder with a divisor of zero"))
        ELSE
        LET size == shape[dim + 1]
            block_size == size \div world_size
            start == rank * block_size
            stop == (rank + 1) * block_size
        IN  IF dim > 1
            THEN Unread(Err(Msg("Get sharded on dimensions != 0 or 1", "", NoShape, NoShape)))
            ELSE IF start >= size \/ stop > size
            THEN Unread(Err(Msg("Cannot slice tensor", tensor_name, shape, NoShape)))
            ELSE LET raw == IF dim = 0 THEN SliceDim0(view, start, stop)
                            ELSE SliceDim1(view, start, stop)
                 IN  [res |-> Ok(FromRawBuffer(raw, view.dtype,
                                               [shape EXCEPT ![dim + 1] = block_size],
                                               data.device)),
                      raw |-> raw]

\* The SafeTensorWithRouting arm of get_sharded, from the view of the tensor
\* on: [res, raw], the value returned and the bytes sliced out of the view.
\* Indexing the shape with dim and dividing by world_size panic when they
\* cannot be done; view.slice refuses a range that leaves the extent.
ShardOf(data, view, tensor_name, dim, rank, world_size) ==
    LET shape == view.shape
    IN  IF dim >= Len(shape) THEN Unread(Panic("index out of bounds"))
        ELSE IF world_size = 0 THEN Unread(Panic("remainder with a divisor of zero"))
        ELSE
        LET size == shape[dim + 1]
            block_size == size \div world_size
            start == rank * block_size
            stop == (rank + 1) * block_size
        IN  IF size % world_size # 0
            THEN Unread(Err([kind |-> "ShapeMismatchSplit", shape |-> shape,
                             dim |-> dim, n_parts |-> world_size]))
            ELSE IF dim > 1
            THEN Unread(Err(Msg("Get sharded on dimensions != 0 or 1", "", NoShape, NoShape)))
            ELSE IF start >= size \/ stop > size
            THEN Unread(Err(Msg("Cannot slice tensor", tensor_name, shape, NoShape)))
            ELSE LET raw == IF dim = 0 THEN SliceDim0(view, start, stop)
                            ELSE SliceDim1(view, start, stop)
                 IN  [res |-> Ok(FromRawBuffer(raw, view.dtype,
                                               [shape EXCEPT ![dim + 1] = block_size],
                                               data.device)),
                      raw |-> raw]

\* VarBuilder::get_sharded as it would be if it looked the name up in every
\* kind of source before it refused the ones it cannot shard.
VBGetShardedLookupFirst(vb, st, tensor_name, dim, rank, world_size) ==
    LET path == PathOf(vb, tensor_name)
        data == Heap[vb.data]
        src == data.tensors
        found == Resolve(data, st, <<1>>, path)
        out == IF ~found.ok THEN Unread(found)
               ELSE IF src.kind # "SafeTensorWithRouting"
               THEN Unread(Err(Msg("get_sharded is only available for safetensors", "",
                                   NoShape, NoShape)))
               ELSE ShardOf(data, src.safetensors[src.routing[path] + 1][path],
                            tensor_name, dim, rank, world_size)
    IN  [path |-> path, res |-> out.res, raw |-> out.raw]

\* VarBuilder::get_sharded: [res, path, raw].  st is the state of the stores,
\* which no arm reads.
VBGetShardedOutcome(vb, st, tensor_name, dim, rank, world_size) ==
    LET path == PathOf(vb, tensor_name)
        data == Heap[vb.data]
        src == data.tensors
        out == IF src.kind # "SafeTensorWithRouting"
               THEN Unread(Err(Msg("get_sharded is only available for safetensors", "",
                                   NoShape, NoShape)))
               ELSE IF path \notin DOMAIN src.routing
               THEN Unread(Err(CannotFindTensor(path)))
               ELSE LET st_file == src.safetensors[src.routing[path] + 1]
                    IN  IF path \notin DOMAIN st_file
                        THEN Unread(Err([kind |-> "SafeTensor", path |-> path]))
                        ELSE ShardOf(data, st_file[path], tensor_name, dim, rank, world_size)
    IN  [path |-> path, res |-> out.res, raw |-> out.raw]

\* The constructors from_safetensors, zeros, from_tensors, from_varmap and
\* from_npz: the new VarBuilder is a root over the TensorData just built.
VBNew(data) ==
    /\ handles' = <<Root(data)>>
    /\ last' = [op |-> "VarBuilder::from", data |-> data, pre |-> stores,
                res |-> Root(data)]
    /\ UNCHANGED <<stores, files, threads, mutex>>

\* handles[k].push_prefix(s); the builders pushed from handles[k] before are
\* dropped, the new one takes their place.
VBPushPrefix(k, s) ==
    /\ k \in 1..Len(handles)
    /\ Len(handles[k].path) < MaxPrefix
    /\ handles' = Append(SubSeq(handles, 1, k), PushPrefixOf(handles[k], s))
    /\ last' = [op |-> "VarBuilder::push_prefix", k |-> k, vb |-> handles[k], s |-> s,
                pre |-> stores, res |-> PushPrefixOf(handles[k], s)]
    /\ UNCHANGED <<stores, files, threads, mutex>>

VBGet(k, s, tensor_name) ==
    /\ k \in 1..Len(handles)
    /\ LET out == VBGetOutcome(handles[k], stores, s, tensor_name)
       IN  last' = [op |-> "VarBuilder::get", k |-> k, vb |-> handles[k], shape |-> s,
                    name |-> tensor_name, path |-> out.path, pre |-> stores,
                    res |-> out.res]
    /\ UNCHANGED <<stores, files, handles, threads, mutex>>

VBGetOrInit(k, s, tensor_name, init) ==
    /\ k \in 1..Len(handles)
    /\ LET out == VBGetOrInitOutcome(handles[k], stores, s, tensor_name, init)
       IN  /\ stores' = out.st
           /\ last' = [op |-> "VarBuilder::get_or_init", k |-> k, vb |-> handles[k],
                       shape |-> s, name |-> tensor_name, init |-> init,
                       path |-> out.path, pre |-> stores, res |-> out.res]
    /\ UNCHANGED <<files, handles, threads, mutex>>

VBGetSharded(k, tensor_name, dim, rank, world_size) ==
    /\ k \in 1..Len(handles)
    /\ LET out == VBGetShardedOutcome(handles[k], stores, tensor_name, dim, rank, world_size)
       IN  last' = [op |-> "VarBuilder::get_sharded", k |-> k, vb |-> handles[k],
                    name |-> tensor_name, dim |-> dim, rank |-> rank,
                    world_size |-> world_size, path |-> out.path, pre |-> stores,
                    res |-> out.res, raw |-> out.raw]
    /\ UNCHANGED <<stores, files, handles, threads, mutex>>

\* The processes of a group of world_size, each asking for the shard of its
\* rank: get_sharded(name, dim, rank, world_size) for rank = 0 .. world_size-1.
VBGetShardedAll(k, tensor_name, dim, world_size) ==
    /\ k \in 1..Len(handles)
    /\ last' = [op |-> "VarBuilder::get_sharded*", k |-> k, vb |-> handles[k],
                name |-> tensor_name, dim |-> dim, world_size |-> world_size,
                path |-> PathOf(handles[k], tensor_name), pre |-> stores,
                res |-> [r \in 1..world_size |->
                           VBGetShardedOutcome(handles[k], stores, tensor_name, dim,
                                               r - 1, world_size).res]]
    /\ UNCHANGED <<stores, files, handles, threads, mutex>>

----------------------------------------------------------------------------
(* Threads.  Every handle of a store can be used from any thread; a call   *)
(* is a sequence of steps, and the steps of different threads interleave.  *)

Threads == 1..MaxThreads
Idle == [pc |-> "idle", op |-> "none"]
\* The Mutex of a store when no thread holds it.
Free == 0

\* The lock as it would be if nobody waited for it.
MutexIgnored(m, s) == TRUE

\* self.data.lock() returns when no thread holds the Mutex of the store.
MutexFree(m, s) == m[s] = Free

\* A load has overwritten its first Variable and not yet its last.
MidLoad(u) ==
    /\ threads[u].pc = "loop"
    /\ threads[u].i >= 1
    /\ threads[u].i < Len(threads[u].order)

\* Some other thread is in the middle of a load of the same store.
SeesMidLoad(t) ==
    \E u \in Threads \ {t} : MidLoad(u) /\ threads[u].store = threads[t].store

\* The calls the threads make on store A: get, and get_or_init through the
\* VarBuilder handles[1], for a registered and for a new path; all_vars; save;
\* load; get through the VarBuilder.
ThreadCalls ==
    {[op |-> "VarMap::get", pc |-> "lock", store |-> "A", shape |-> <<2>>, path |-> path,
      init |-> init, dtype |-> "U8", device |-> Cpu, made |-> FALSE] :
        path \in {"w", "y"}, init \in Inits}
    \cup {[op |-> "VarBuilder::get_or_init", pc |-> "lock",
           store |-> Heap[handles[1].data].tensors.varmap, shape |-> <<2>>,
           path |-> PathOf(handles[1], "y"), init |-> Const(1),
           dtype |-> Heap[handles[1].data].dtype,
           device |-> Heap[handles[1].data].device, made |-> FALSE]}
    \cup {[op |-> "VarMap::all_vars", pc |-> "lock", store |-> "A"]}
    \cup {[op |-> "VarMap::save", pc |-> "lock", store |-> "A", file |-> "g"]}
    \cup {[op |-> "VarMap::load", pc |-> "open", store |-> "A", file |-> "f"]}
    \cup {[op |-> "VarBuilder::get", pc |-> "lock",
           store |-> Heap[handles[1].data].tensors.varmap, shape |-> <<2>>,
           path |-> PathOf(handles[1], "w")]}

IsGet(t) == threads[t].op \in {"VarMap::get", "VarBuilder::get_or_init"}

\* Record r with the fields of record f added or replaced.
With(r, f) ==
    [k \in DOMAIN r \cup DOMAIN f |-> IF k \in DOMAIN f THEN f[k] ELSE r[k]]

Step(t, f) == threads' = [threads EXCEPT ![t] = With(threads[t], f)]

ThreadCall(t, call) ==
    /\ threads[t] = Idle
    /\ threads' = [threads EXCEPT ![t] = call]
    /\ UNCHANGED <<stores, files, handles, last, mutex>>

\* load, before it locks: MmapedFile::new(path)?.deserialize()?.
LoadOpen(t) ==
    /\ threads[t].pc = "open"
    /\ IF files[threads[t].file].exists
       THEN Step(t, [pc |-> "lock", data |-> files[threads[t].file].tensors])
       ELSE Step(t, [pc |-> "done", res |-> Err(IoError(threads[t].file))])
    /\ UNCHANGED <<stores, files, handles, last, mutex>>

\* let tensor_data = self.data.lock().unwrap();
Lock(t) ==
    /\ threads[t].pc = "lock"
    /\ MutexFree(mutex, threads[t].store)
    /\ mutex' = [mutex EXCEPT ![threads[t].store] = t]
    /\ CASE IsGet(t) -> Step(t, [pc |-> "lookup"])
         [] threads[t].op = "VarBuilder::get" -> Step(t, [pc |-> "lookup"])
         [] threads[t].op = "VarMap::all_vars" -> Step(t, [pc |-> "collect"])
         [] threads[t].op = "VarMap::save" -> Step(t, [pc |-> "write"])
         [] threads[t].op = "VarMap::load" ->
               \E order \in Orders(DOMAIN stores[threads[t].store]) :
                   Step(t, [pc |-> "loop", order |-> order, i |-> 0])
    /\ UNCHANGED <<stores, files, handles, last>>

\* The guard is dropped when the call returns.
Unlock(t) ==
    /\ threads[t].pc = "unlock"
    /\ mutex' = [mutex EXCEPT ![threads[t].store] = Free]
    /\ Step(t, [pc |-> "done"])
    /\ UNCHANGED <<stores, files, handles, last>>

\* get: if let Some(tensor) = tensor_data.get(path) { .. return .. }
GetLookup(t) ==
    LET c == threads[t]
        m == stores[c.store]
    IN  /\ IsGet(t)
        /\ c.pc = "lookup"
        /\ IF c.path \in DOMAIN m
           THEN Step(t, [pc |-> "unlock", mid |-> SeesMidLoad(t),
                         res |-> IF c.shape # m[c.path].shape
                                 THEN Err(Msg("shape mismatch on", c.path, c.shape,
                                              m[c.path].shape))
                                 ELSE Ok(m[c.path])])
           ELSE Step(t, [pc |-> "init", mid |-> SeesMidLoad(t)])
        /\ UNCHANGED <<stores, files, handles, last, mutex>>

\* get: let var = init.var(shape, dtype, device)?;
GetInit(t) ==
    LET c == threads[t]
    IN  /\ IsGet(t)
        /\ c.pc = "init"
        /\ Step(t, [pc |-> "insert", made |-> TRUE,
                    var |-> InitVar(c.init, Cardinality(DOMAIN stores[c.store]) + 1,
                                    c.shape, c.dtype, c.device)])
        /\ UNCHANGED <<stores, files, handles, last, mutex>>

\* get: tensor_data.insert(path.to_string(), var); Ok(tensor)
GetInsert(t) ==
    LET c == threads[t]
    IN  /\ IsGet(t)
        /\ c.pc = "insert"
        /\ stores' = [stores EXCEPT ![c.store] = Insert(stores[c.store], c.path, c.var)]
        /\ Step(t, [pc |-> "unlock", res |-> Ok(c.var)])
        /\ UNCHANGED <<files, handles, last, mutex>>

\* VarBuilder::get on a VarMap: data.get(&path), and the check of the shape.
VBGetLookup(t) ==
    LET c == threads[t]
    IN  /\ c.op = "VarBuilder::get"
        /\ c.pc = "lookup"
        /\ Step(t, [pc |-> "unlock", mid |-> SeesMidLoad(t),
                    res |-> VBGetOutcome(handles[1], stores, c.shape, "w").res])
        /\ UNCHANGED <<stores, files, handles, last, mutex>>

\* all_vars: tensor_data.values().map(|c| c.clone()).collect()
AllVarsCollect(t) ==
    LET c == threads[t]
    IN  /\ c.op = "VarMap::all_vars"
        /\ c.pc = "collect"
        /\ \E order \in Orders(DOMAIN stores[c.store]) :
              Step(t, [pc |-> "unlock", mid |-> SeesMidLoad(t),
                       res |-> [i \in 1..Len(order) |-> stores[c.store][order[i]]]])
        /\ UNCHANGED <<stores, files, handles, last, mutex>>

\* save: serialize_to_file(tensor_data.iter()..., path)
SaveWrite(t) ==
    LET c == threads[t]
    IN  /\ c.op = "VarMap::save"
        /\ c.pc = "write"
        /\ files' = [files EXCEPT ![c.file] = FileOf(VarMapSaveOutcome(stores[c.store]))]
        /\ Step(t, [pc |-> "unlock", mid |-> SeesMidLoad(t), res |-> Ok("unit")])
        /\ UNCHANGED <<stores, handles, last, mutex>>

\* load: one turn of the loop over tensor_data.iter_mut(), or its end.
LoadStep(t) ==
    LET c == threads[t]
    IN  /\ c.op = "VarMap::load"
        /\ c.pc = "loop"
        /\ IF c.i = Len(c.order)
           THEN /\ Step(t, [pc |-> "unlock", res |-> Ok("unit")])
                /\ stores' = stores
           ELSE LET out == LoadLoop(stores[c.store], <<c.order[c.i + 1]>>, 1, c.data)
                IN  IF out.res.ok
                    THEN /\ stores' = [stores EXCEPT ![c.store] = out.map]
                         /\ Step(t, [i |-> c.i + 1])
                    ELSE /\ stores' = stores
                         /\ Step(t, [pc |-> "unlock", res |-> out.res])
        /\ UNCHANGED <<files, handles, last, mutex>>

----------------------------------------------------------------------------
(* The program: one store, the VarBuilders over the five kinds of source,  *)
(* and a checkpoint file written before the program started.               *)

\* The file "f" as the program finds it: "w" and a name the program never uses.
CkptFile ==
    FileOf([k \in {"w", "x"} |->
              IF k = "w" THEN View("U8", <<2>>, <<9, 9>>)
              ELSE View("U8", <<2>>, <<3, 3>>)])

MainGetArgs ==
    { <<(<<2>>), "U8", Cpu, Const(0)>>,
      <<(<<1, 2>>), "U32", Cuda(0), Const(1)>> }

\* The program pushes one segment on a root VarBuilder; SpecBuilders has the
\* longer chains.

Init ==
    /\ stores = [s \in StoreIds |-> EmptyMap]
    /\ files = [f \in FileNames |-> IF f = "f" THEN CkptFile ELSE NoFile]
    /\ handles = <<>>
    /\ last = [op |-> "none"]
    /\ threads = [t \in Threads |-> Idle]
    /\ mutex = [s \in StoreIds |-> Free]

Next ==
    \/ \E path \in Names, a \in MainGetArgs : VarMapGet("A", a[1], path, a[4], a[2], a[3])
    \/ VarMapAllVars("A")
    \/ \E file \in FileNames : VarMapSave("A", file)
    \/ \E file \in FileNames : VarMapLoad("A", file)
    \/ \E data \in DOMAIN Heap : VBNew(data)
    \/ VBPushPrefix(1, "a")
    \/ \E s \in Shapes, name \in Names : VBGet(Len(handles), s, name)
    \/ \E s \in Shapes, name \in Names : VBGetOrInit(Len(handles), s, name, Const(0))
    \/ \E name \in Names, dim \in 0..2, world_size \in 1..2 :
          VBGetSharded(Len(handles), name, dim, world_size - 1, world_size)

Spec == Init /\ [][Next]_vars

----------------------------------------------------------------------------
(* Properties of the program.  In every state, last holds the call just    *)
(* made, last.pre the stores as they were when it was made, and stores the *)
(* stores as it left them.                                                 *)

\* The store a call works on: the receiver of a VarMap call, the VarMap behind
\* a VarMap-backed VarBuilder.
IsVarMapCall == last.op \in {"VarMap::get", "VarMap::all_vars", "VarMap::save", "VarMap::load"}
IsLookup == last.op \in {"VarBuilder::get", "VarBuilder::get_or_init", "VarBuilder::get_sharded"}
KindOfLast == Heap[last.vb.data].tensors.kind
OnVarMap == IsLookup /\ KindOfLast = "VarMap"

\* An all-v tensor of the declared shape.
Filled(t, shape, v) ==
    /\ t.shape = shape
    /\ Len(t.data) = ElemCount(shape)
    /\ \A i \in 1..Len(t.data) : t.data[i] = v

\* C1: VarMap.get creates or fetches.  For an absent path it inserts exactly one
\* new Variable under the path, filled by init at the declared shape, dtype and
\* device, with an identity no other Variable of the store has, and returns its
\* tensor.  For a registered path of equal shape it returns the tensor of the
\* registered Variable and changes nothing.  Distinct paths always hold distinct
\* Variables, and all_vars returns each registered Variable once.
C1_CreateOrFetch ==
    /\ \A s \in StoreIds : \A j, k \in DOMAIN stores[s] :
          stores[s][j].id = stores[s][k].id => j = k
    /\ last.op = "VarMap::all_vars" =>
          /\ Len(last.res) = Cardinality(DOMAIN stores[last.store])
          /\ {last.res[i] : i \in 1..Len(last.res)}
                = {stores[last.store][k] : k \in DOMAIN stores[last.store]}
    /\ last.op = "VarMap::get" =>
          LET old == last.pre[last.store]
              new == stores[last.store]
          IN  /\ \A s \in StoreIds \ {last.store} : stores[s] = last.pre[s]
              /\ last.path \notin DOMAIN old =>
                    /\ DOMAIN new = DOMAIN old \cup {last.path}
                    /\ \A k \in DOMAIN old : new[k] = old[k]
                    /\ Filled(new[last.path], last.shape, last.init.v)
                    /\ new[last.path].dtype = last.dtype
                    /\ new[last.path].device = last.device
                    /\ last.res = Ok(new[last.path])
              /\ (last.path \in DOMAIN old /\ old[last.path].shape = last.shape) =>
                    /\ new = old
                    /\ last.res = Ok(old[last.path])

\* A get that fetched a Variable created with another dtype, device and value
\* than the ones this call declares.
C1_Witness ==
    /\ last.op = "VarMap::get"
    /\ last.path \in DOMAIN last.pre[last.store]
    /\ last.res.ok
    /\ last.res.val.dtype # last.dtype
    /\ last.res.val.data[1] # last.init.v

\* C2: a VarMap.get, or a get_or_init of a VarMap-backed VarBuilder, that
\* declares another shape than the one the registered Variable has returns an
\* error and leaves every store as it was.
C2_ShapeMismatchRejected ==
    /\ last.op = "VarMap::get" =>
          LET old == last.pre[last.store]
          IN  (last.path \in DOMAIN old /\ old[last.path].shape # last.shape) =>
                 ~last.res.ok /\ stores = last.pre
    /\ (last.op = "VarBuilder::get_or_init" /\ OnVarMap) =>
          LET old == last.pre[Heap[last.vb.data].tensors.varmap]
          IN  (last.path \in DOMAIN old /\ old[last.path].shape # last.shape) =>
                 ~last.res.ok /\ stores = last.pre

\* A get_or_init through a pushed VarBuilder that was refused for its shape.
C2_Witness ==
    /\ last.op = "VarBuilder::get_or_init"
    /\ OnVarMap
    /\ last.vb.path # <<>>
    /\ last.path \in DOMAIN last.pre["A"]
    /\ last.pre["A"][last.path].shape # last.shape
    /\ ~last.res.ok

\* C3: no call removes a path from a store; a store gains a path only in a
\* VarMap.get on it, or in a get_or_init of a VarBuilder backed by it, and then
\* the one path of the call, which was absent.  A load, successful or not,
\* leaves the set of paths as it was.
C3_PathsOnlyGrowByGet ==
    last.op # "none" =>
        \A s \in StoreIds :
            /\ DOMAIN last.pre[s] \subseteq DOMAIN stores[s]
            /\ DOMAIN stores[s] # DOMAIN last.pre[s] =>
                  /\ \/ last.op = "VarMap::get" /\ last.store = s
                     \/ /\ last.op = "VarBuilder::get_or_init"
                        /\ OnVarMap
                        /\ Heap[last.vb.data].tensors.varmap = s
                  /\ last.path \notin DOMAIN last.pre[s]
                  /\ DOMAIN stores[s] = DOMAIN last.pre[s] \cup {last.path}

\* A load that failed on a store holding a path the file lacks, from a file
\* holding a name the store lacks.
C3_Witness ==
    /\ last.op = "VarMap::load"
    /\ ~last.res.ok
    /\ files[last.file].exists
    /\ DOMAIN files[last.file].tensors \ DOMAIN stores[last.store] # {}
    /\ DOMAIN stores[last.store] \ DOMAIN files[last.file].tensors # {}

\* C7 as claimed: a get of a VarMap-backed VarBuilder for a path that is not
\* registered creates the Variable and returns its tensor.
C7_GetCreates ==
    (last.op = "VarBuilder::get" /\ OnVarMap /\ last.path \notin DOMAIN last.pre["A"]) =>
        /\ last.res.ok
        /\ last.path \in DOMAIN stores["A"]

\* C7, amended: a get of a VarMap-backed VarBuilder never creates: for a path
\* that is not registered it fails with CannotFindTensor carrying the path and
\* leaves the store as it was.  Only get_or_init creates the Variable, of the
\* declared shape, on its first call.
C7_GetNeverCreates ==
    /\ (last.op = "VarBuilder::get" /\ OnVarMap) =>
          /\ stores = last.pre
          /\ last.path \notin DOMAIN last.pre["A"] =>
                last.res = Err(CannotFindTensor(last.path))
    /\ (last.op = "VarBuilder::get_or_init" /\ OnVarMap
            /\ last.path \notin DOMAIN last.pre["A"]) =>
          /\ last.res.ok
          /\ last.path \in DOMAIN stores["A"]
          /\ stores["A"][last.path].shape = last.shape
          /\ last.res.val = stores["A"][last.path]

\* A get on a VarMap-backed VarBuilder for a path nobody registered.
C7_Witness ==
    /\ last.op = "VarBuilder::get"
    /\ OnVarMap
    /\ last.path \notin DOMAIN last.pre["A"]
    /\ ~last.res.ok

\* The tensor a source holds under a key, as the source was when the call was
\* made; Absent when it holds none.  The zero generator holds no tensor.
Absent == [found |-> FALSE]
Held(t) == [found |-> TRUE, shape |-> t.shape]
StoredIn(data, pre, key) ==
    LET src == Heap[data].tensors
    IN  CASE src.kind = "Zeros" -> Absent
          [] src.kind = "TensorMap" ->
                IF key \in DOMAIN TensorMapSrc THEN Held(TensorMapSrc[key]) ELSE Absent
          [] src.kind = "Npz" ->
                IF key \in DOMAIN NpzSrc THEN Held(NpzSrc[key]) ELSE Absent
          [] src.kind = "VarMap" ->
                IF key \in DOMAIN pre["A"] THEN Held(pre["A"][key]) ELSE Absent
          [] src.kind = "SafeTensorWithRouting" ->
                IF \E i \in 1..Len(StContainers) : key \in DOMAIN StContainers[i]
                THEN LET i == CHOOSE i \in 1..Len(StContainers) :
                                 /\ key \in DOMAIN StContainers[i]
                                 /\ \A j \in (i + 1)..Len(StContainers) :
                                        key \notin DOMAIN StContainers[j]
                     IN  Held(StContainers[i][key])
                ELSE Absent

\* C8: a tensor returned by get or get_or_init has exactly the declared shape,
\* whatever the source; when the source holds a tensor of another shape under
\* the path, the call fails with an error that carries the path, the declared
\* shape and the shape found.
C8_ShapeExact ==
    last.op \in {"VarBuilder::get", "VarBuilder::get_or_init"} =>
        LET held == StoredIn(last.vb.data, last.pre, last.path)
        IN  /\ last.res.ok =>
                  /\ last.res.val.shape = last.shape
                  /\ Len(last.res.val.data) = ElemCount(last.shape)
            /\ (held.found /\ held.shape # last.shape) =>
                  /\ ~last.res.ok
                  /\ last.res.err.path = last.path
                  /\ last.res.err.expected = last.shape
                  /\ last.res.err.got = held.shape
                  /\ stores = last.pre

\* A get refused because the tensor found has the same elements in another shape.
C8_Witness ==
    /\ last.op = "VarBuilder::get"
    /\ ~last.res.ok
    /\ last.res.err.kind = "UnexpectedShape"
    /\ ElemCount(last.res.err.got) = ElemCount(last.res.err.expected)

\* The key a prefix and a name make: the segments in order, then the name,
\* with a dot after every segment.
RECURSIVE Dotted(_, _)
Dotted(segments, name) ==
    IF segments = <<>> THEN name
    ELSE Head(segments) \o "." \o Dotted(Tail(segments), name)

\* C9: a get on a VarBuilder over safetensors files, an archive or a tensor map
\* that hold nothing under the full path fails with CannotFindTensor carrying
\* the full path, prefix included; no tensor is made up for a missing name.
C9_MissingIsNotFound ==
    (/\ last.op = "VarBuilder::get"
     /\ KindOfLast \in {"SafeTensorWithRouting", "Npz", "TensorMap"}
     /\ ~StoredIn(last.vb.data, last.pre, Dotted(last.vb.path, last.name)).found) =>
        last.res = Err(CannotFindTensor(Dotted(last.vb.path, last.name)))

\* A get under a prefix that found nothing in the safetensors files.
C9_Witness ==
    /\ last.op = "VarBuilder::get"
    /\ KindOfLast = "SafeTensorWithRouting"
    /\ last.vb.path # <<>>
    /\ ~last.res.ok
    /\ last.res.err.kind = "CannotFindTensor"

----------------------------------------------------------------------------
(* Two stores and one checkpoint file between them.                        *)

GetPaths == {"w", "a.w"}

\* The (shape, dtype, device, init) a caller of VarMap::get declares.
GetArgs ==
    { <<(<<2>>), "U8", Cpu, Const(0)>>,
      <<(<<2>>), "U8", Cuda(0), Const(1)>>,
      <<(<<2>>), "U32", Cpu, Const(1)>>,
      <<(<<1, 2>>), "U8", Cpu, Const(0)>> }

InitStores ==
    /\ stores = [s \in StoreIds |-> EmptyMap]
    /\ files = [f \in FileNames |-> NoFile]
    /\ handles = <<>>
    /\ last = [op |-> "none"]
    /\ threads = [t \in Threads |-> Idle]
    /\ mutex = [s \in StoreIds |-> Free]

\* Store A writes the checkpoints, store B reads them.
NextStores ==
    \/ \E s \in StoreIds, path \in GetPaths, a \in GetArgs :
            VarMapGet(s, a[1], path, a[4], a[2], a[3])
    \/ \E s \in StoreIds : VarMapAllVars(s)
    \/ \E file \in FileNames : VarMapSave("A", file)
    \/ \E file \in FileNames : VarMapLoad("B", file)

SpecStores == InitStores /\ [][NextStores]_vars

\* What the file of the last save or load holds.
FileOfLast == files[last.file].tensors

\* The Variable var with the elements of the view put in its place.
Loaded(var, view) == [var EXCEPT !.data = ViewLoad(view, var.device).data]

\* C4: load is not transactional.  When it fails because the file lacks the
\* path of a Variable, that Variable is the first one, in the order of the
\* visit, that the file lacks; every Variable visited before it holds the
\* value of the file, and that Variable and the ones after it hold the value
\* they had before the call.
C4_LoadStopsAtFirstMissing ==
    (/\ last.op = "VarMap::load"
     /\ ~last.res.ok
     /\ last.res.err.kind = "Msg"
     /\ last.res.err.msg = "cannot find tensor for") =>
        LET old == last.pre[last.store]
            new == stores[last.store]
            n == last.visited
        IN  /\ n < Len(last.order)
            /\ last.res.err.path = last.order[n + 1]
            /\ last.order[n + 1] \notin DOMAIN FileOfLast
            /\ DOMAIN new = DOMAIN old
            /\ \A i \in 1..n :
                  /\ last.order[i] \in DOMAIN FileOfLast
                  /\ new[last.order[i]] = Loaded(old[last.order[i]], FileOfLast[last.order[i]])
            /\ \A i \in (n + 1)..Len(last.order) :
                  new[last.order[i]] = old[last.order[i]]

\* A load that changed the value of one Variable and then failed on the next.
C4_Witness ==
    /\ last.op = "VarMap::load"
    /\ ~last.res.ok
    /\ last.res.err.kind = "Msg"
    /\ last.res.err.msg = "cannot find tensor for"
    /\ last.visited = 1
    /\ stores[last.store][last.order[1]] # last.pre[last.store][last.order[1]]

\* C5: after a successful load every Variable registered when it was called
\* holds the elements the file has under its path, on the device, and with the
\* identity, the Variable had; the names of the file that are not registered
\* create no Variable, and no other store changes.
C5_LoadSuccess ==
    (last.op = "VarMap::load" /\ last.res.ok) =>
        LET old == last.pre[last.store]
            new == stores[last.store]
        IN  /\ DOMAIN new = DOMAIN old
            /\ \A k \in DOMAIN old :
                  /\ k \in DOMAIN FileOfLast
                  /\ new[k] = Loaded(old[k], FileOfLast[k])
                  /\ new[k].device = old[k].device
                  /\ new[k].data = ViewLoad(FileOfLast[k], Cpu).data
            /\ \A s \in StoreIds \ {last.store} : stores[s] = last.pre[s]

\* A successful load that changed a value, from a file with a name the store lacks.
C5_Witness ==
    /\ last.op = "VarMap::load"
    /\ last.res.ok
    /\ DOMAIN FileOfLast \ DOMAIN stores[last.store] # {}
    /\ stores[last.store] # last.pre[last.store]

\* The file holds, for every Variable of the map m and nothing else, its
\* dtype, its shape and its elements.
Holds(tensors, m) ==
    /\ DOMAIN tensors = DOMAIN m
    /\ \A k \in DOMAIN m :
          /\ tensors[k].dtype = m[k].dtype
          /\ tensors[k].shape = m[k].shape
          /\ ViewLoad(tensors[k], m[k].device).data = m[k].data

\* C6 as claimed: a successful save writes one entry for every registered path,
\* with the value of its Variable, and leaves the store unchanged; and a load
\* of a file into a store with exactly the paths and the shapes of the file
\* succeeds and gives every Variable the value of the file.
C6_RoundTrip ==
    /\ (last.op = "VarMap::save" /\ last.res.ok) =>
          /\ stores = last.pre
          /\ files[last.file].exists
          /\ Holds(FileOfLast, stores[last.store])
    /\ (/\ last.op = "VarMap::load"
        /\ files[last.file].exists
        /\ DOMAIN FileOfLast = DOMAIN last.pre[last.store]
        /\ \A k \in DOMAIN FileOfLast :
              FileOfLast[k].shape = last.pre[last.store][k].shape) =>
          /\ last.res.ok
          /\ \A k \in DOMAIN FileOfLast :
                ViewLoad(FileOfLast[k], Cpu).data = stores[last.store][k].data

\* C6, amended: the same, for a load into a store with exactly the paths, the
\* shapes and the dtypes of the file; the Variables then hold, bit for bit,
\* what the file holds.
C6_RoundTripSameDType ==
    /\ (last.op = "VarMap::save" /\ last.res.ok) =>
          /\ stores = last.pre
          /\ files[last.file].exists
          /\ Holds(FileOfLast, stores[last.store])
    /\ (/\ last.op = "VarMap::load"
        /\ files[last.file].exists
        /\ DOMAIN FileOfLast = DOMAIN last.pre[last.store]
        /\ \A k \in DOMAIN FileOfLast :
              /\ FileOfLast[k].shape = last.pre[last.store][k].shape
              /\ FileOfLast[k].dtype = last.pre[last.store][k].dtype) =>
          /\ last.res.ok
          /\ Holds(FileOfLast, stores[last.store])
          /\ \A k \in DOMAIN FileOfLast : Serialize(stores[last.store][k]) = FileOfLast[k]

\* Store B, holding other values under the two paths of store A, has loaded the
\* file that A saved.
C6_Witness ==
    /\ last.op = "VarMap::load"
    /\ last.store = "B"
    /\ last.res.ok
    /\ Cardinality(DOMAIN stores["B"]) = 2
    /\ Holds(FileOfLast, stores["A"])
    /\ \A k \in DOMAIN stores["B"] : stores["B"][k].data # last.pre["B"][k].data

----------------------------------------------------------------------------
(* The VarBuilders alone: every chain of prefixes over every source.       *)

NextBuilders ==
    \/ \E data \in DOMAIN Heap : VBNew(data)
    \/ \E k \in 1..MaxPrefix, s \in Segments : VBPushPrefix(k, s)
    \/ \E k \in 1..(MaxPrefix + 1), s \in Shapes, name \in Names : VBGet(k, s, name)
    \/ \E k \in 1..(MaxPrefix + 1), name \in Names :
          /\ k <= Len(handles)
          /\ \/ PathOf(handles[k], name) \in DOMAIN stores["A"]
             \/ Cardinality(DOMAIN stores["A"]) < MaxVars
          /\ VBGetOrInit(k, <<2>>, name, Const(0))
    \/ \E k \in 1..(MaxPrefix + 1), name \in Names, dim \in 0..1 :
          VBGetSharded(k, name, dim, 0, 1)

SpecBuilders == InitStores /\ [][NextBuilders]_vars

\* C10: the key that get, get_or_init and get_sharded look up is the segments
\* pushed, in the order of the pushes, then the name, joined with dots, and the
\* name alone for a root; a missing key is reported under that key, a Variable
\* is created under that key, a tensor found is the one the source holds under
\* that key.  push_prefix returns a VarBuilder over the same data with the
\* segment appended to the prefix of its receiver, which stays as it was.
C10_KeyIsDottedPrefix ==
    /\ \A k \in 1..Len(handles) :
          /\ Len(handles[k].path) = k - 1
          /\ k > 1 => /\ handles[k].data = handles[k - 1].data
                      /\ SubSeq(handles[k].path, 1, k - 2) = handles[k - 1].path
    /\ last.op = "VarBuilder::push_prefix" =>
          /\ last.res.data = last.vb.data
          /\ last.res.path = last.vb.path \o <<last.s>>
          /\ Len(handles) = last.k + 1
          /\ handles[last.k] = last.vb
          /\ handles[last.k + 1] = last.res
    /\ IsLookup =>
          LET key == Dotted(last.vb.path, last.name)
          IN  /\ last.path = key
              /\ (~last.res.ok /\ last.res.err.kind = "CannotFindTensor") =>
                    last.res.err.path = key
              /\ DOMAIN stores["A"] \ DOMAIN last.pre["A"] \subseteq {key}
              /\ (last.res.ok /\ KindOfLast = "TensorMap") => last.res.val = TensorMapSrc[key]
              /\ (last.res.ok /\ KindOfLast = "Npz") => last.res.val = NpzSrc[key]
              /\ (last.res.ok /\ KindOfLast = "VarMap") => last.res.val = stores["A"][key]
              /\ (last.res.ok /\ KindOfLast = "SafeTensorWithRouting") =>
                    StoredIn(last.vb.data, last.pre, key).found

\* A get that found a tensor under two different segments and a name.
C10_Witness ==
    /\ last.op = "VarBuilder::get"
    /\ Len(last.vb.path) = 2
    /\ last.vb.path[1] # last.vb.path[2]
    /\ last.res.ok
    /\ KindOfLast = "VarMap"

----------------------------------------------------------------------------
(* Lookups: get and get_or_init under every name, shape and init, on a     *)
(* root VarBuilder and on the ones pushed from it.                         *)

\* The names asked for; no source holds "x".
LookupNames == {"w", "x"}

NextLookups ==
    \/ \E data \in DOMAIN Heap : VBNew(data)
    \/ \E s \in Segments : VBPushPrefix(1, s)
    \/ \E s \in Shapes, name \in LookupNames : VBGet(Len(handles), s, name)
    \/ \E s \in Shapes, name \in LookupNames, init \in Inits :
          /\ handles # <<>>
          /\ Heap[handles[Len(handles)].data].tensors.kind = "VarMap" =>
                \/ PathOf(handles[Len(handles)], name) \in DOMAIN stores["A"]
                \/ Cardinality(DOMAIN stores["A"]) < MaxVars
          /\ VBGetOrInit(Len(handles), s, name, init)

SpecLookups == InitStores /\ [][NextLookups]_vars

\* C11: a get on a VarBuilder over the zero generator succeeds under every name
\* and every prefix: it returns a new tensor, no Variable of any store, of
\* exactly the declared shape, with the dtype and the device of the VarBuilder
\* and every element zero, so the name and the prefix have no part in the
\* result; no store changes.
C11_ZerosIgnoresName ==
    (last.op = "VarBuilder::get" /\ KindOfLast = "Zeros") =>
        /\ last.res.ok
        /\ Filled(last.res.val, last.shape, 0)
        /\ last.res.val.dtype = Heap[last.vb.data].dtype
        /\ last.res.val.device = Heap[last.vb.data].device
        /\ last.res.val.id = 0
        /\ \A name \in LookupNames, prefix \in {<<>>} \cup {<<s>> : s \in Segments} :
              VBGetOutcome([data |-> last.vb.data, path |-> prefix], last.pre,
                           last.shape, name).res = last.res
        /\ stores = last.pre

\* A get under a prefix, for a name no source holds, answered by the zero
\* generator with a tensor of two dimensions.
C11_Witness ==
    /\ last.op = "VarBuilder::get"
    /\ KindOfLast = "Zeros"
    /\ last.vb.path # <<>>
    /\ last.name = "x"
    /\ last.res.ok
    /\ Len(last.res.val.shape) = 2

\* C12: on a VarBuilder over any source but a VarMap, get_or_init returns what
\* get returns for the same shape and name, tensor or error, whatever init is,
\* and changes no store.  On a VarMap-backed VarBuilder it is the create-or-fetch
\* of the store under the full path: an absent path gets a new Variable filled
\* by init with the dtype and the device of the VarBuilder, a registered path of
\* the declared shape is returned as it is, and one of another shape is refused.
C12_GetOrInitDelegates ==
    last.op = "VarBuilder::get_or_init" =>
        LET data == Heap[last.vb.data]
            key == Dotted(last.vb.path, last.name)
        IN  IF data.tensors.kind # "VarMap"
            THEN /\ last.res = VBGetOutcome(last.vb, last.pre, last.shape, last.name).res
                 /\ data.tensors.kind = "Zeros" => last.res.ok
                 /\ ~StoredIn(last.vb.data, last.pre, key).found =>
                        (data.tensors.kind = "Zeros" \/ last.res = Err(CannotFindTensor(key)))
                 /\ stores = last.pre
            ELSE LET old == last.pre[data.tensors.varmap]
                     new == stores[data.tensors.varmap]
                 IN  /\ key \notin DOMAIN old =>
                           /\ DOMAIN new = DOMAIN old \cup {key}
                           /\ \A k \in DOMAIN old : new[k] = old[k]
                           /\ Filled(new[key], last.shape, last.init.v)
                           /\ new[key].dtype = data.dtype
                           /\ new[key].device = data.device
                           /\ last.res = Ok(new[key])
                     /\ (key \in DOMAIN old /\ old[key].shape = last.shape) =>
                           /\ new = old
                           /\ last.res = Ok(old[key])
                     /\ (key \in DOMAIN old /\ old[key].shape # last.shape) =>
                           /\ new = old
                           /\ ~last.res.ok

\* A get_or_init with an init of ones, refused for a name the tensor map does
\* not hold.
C12_Witness ==
    /\ last.op = "VarBuilder::get_or_init"
    /\ KindOfLast = "TensorMap"
    /\ last.init = Const(1)
    /\ ~last.res.ok
    /\ last.res.err.kind = "CannotFindTensor"

----------------------------------------------------------------------------
(* Sharded reads: get_sharded with every dimension, rank and size of the   *)
(* group, on every kind of source.                                         *)

\* Largest world_size, and rank, asked for.
MaxWorld == 3
\* Largest dim asked for.
MaxDim == 2

\* The names asked for; no source holds "x".
ShardNames == {"w", "m", "t", "o", "x"}

NextShards ==
    \/ \E data \in DOMAIN Heap : VBNew(data)
    \/ VBPushPrefix(1, "a")
    \/ \E name \in ShardNames, dim \in 0..MaxDim, rank \in 0..MaxWorld,
          world_size \in 0..MaxWorld :
            VBGetSharded(Len(handles), name, dim, rank, world_size)
    \/ \E name \in ShardNames, dim \in 0..MaxDim, world_size \in 1..MaxWorld :
            VBGetShardedAll(Len(handles), name, dim, world_size)

SpecShards == InitStores /\ [][NextShards]_vars

IsSharded == last.op = "VarBuilder::get_sharded"

\* The view the safetensors files hold under a key: the one of the last
\* container that has the key.
StHolds(key) == \E i \in 1..Len(StContainers) : key \in DOMAIN StContainers[i]
StView(key) ==
    LET i == CHOOSE i \in 1..Len(StContainers) :
                /\ key \in DOMAIN StContainers[i]
                /\ \A j \in (i + 1)..Len(StContainers) : key \notin DOMAIN StContainers[j]
    IN  StContainers[i][key]

\* C13: get_sharded on a VarBuilder over an archive, a tensor map, the zero
\* generator or a VarMap fails with the error that says it is only available
\* for safetensors, whatever the name, held or not, the dimension, the rank and
\* the size of the group, zero included; it slices nothing and changes no store.
C13_OnlySafetensorsShard ==
    (IsSharded /\ KindOfLast # "SafeTensorWithRouting") =>
        /\ last.res = Err(Msg("get_sharded is only available for safetensors", "",
                              NoShape, NoShape))
        /\ last.raw = <<>>
        /\ stores = last.pre

\* A get_sharded for a group of size zero, refused by a tensor map for a name
\* it does not hold.
C13_Witness ==
    /\ IsSharded
    /\ KindOfLast = "TensorMap"
    /\ last.path \notin DOMAIN TensorMapSrc
    /\ last.world_size = 0
    /\ ~last.res.ok

\* C14: get_sharded on a VarBuilder over safetensors files, for a stored tensor,
\* a dimension the tensor has and a group of at least one, fails with
\* ShapeMismatchSplit carrying the whole shape of the tensor, the dimension and
\* the size of the group whenever that size does not divide the extent of the
\* dimension, whatever the rank; no byte of the tensor has been sliced then.
C14_UnevenSplitRefused ==
    (/\ IsSharded
     /\ KindOfLast = "SafeTensorWithRouting"
     /\ StHolds(last.path)
     /\ last.dim < Len(StView(last.path).shape)
     /\ last.world_size >= 1
     /\ StView(last.path).shape[last.dim + 1] % last.world_size # 0) =>
        /\ last.res = Err([kind |-> "ShapeMismatchSplit", shape |-> StView(last.path).shape,
                           dim |-> last.dim, n_parts |-> last.world_size])
        /\ last.raw = <<>>

\* A split of an extent of three in two, refused for the rank that would get
\* the whole first block.
C14_Witness ==
    /\ IsSharded
    /\ KindOfLast = "SafeTensorWithRouting"
    /\ StHolds(last.path)
    /\ StView(last.path).shape = <<3, 2>>
    /\ last.dim = 0
    /\ last.world_size = 2
    /\ last.rank = 0
    /\ ~last.res.ok
    /\ last.res.err.kind = "ShapeMismatchSplit"

\* C15 as claimed: get_sharded on a VarBuilder over safetensors files, for a
\* stored tensor of any number of dimensions and a dimension other than 0 and
\* 1, fails with the error that says the dimension is not supported, whatever
\* the rank and the size of the group.
C15_OtherDimUnsupported ==
    (/\ IsSharded
     /\ KindOfLast = "SafeTensorWithRouting"
     /\ StHolds(last.path)
     /\ last.dim \notin {0, 1}) =>
        last.res = Err(Msg("Get sharded on dimensions != 0 or 1", "", NoShape, NoShape))

\* The product of the extents shape[from], .., shape[to].
RECURSIVE Prod(_, _, _)
Prod(shape, from, to) ==
    IF from > to THEN 1 ELSE shape[from] * Prod(shape, from + 1, to)

Elems(t) == {t.data[i] : i \in 1..Len(t.data)}

\* Tensor::cat(shards, dim) of tensors of one shape: the element at index i
\* along dim comes from shard i \div b, where it has index i % b.
Cat(shards, dim) ==
    LET sh == shards[1].shape
        b == sh[dim + 1]
        d == Len(shards) * b
        inner == Prod(sh, dim + 2, Len(sh))
        outer == Prod(sh, 1, dim)
    IN  [shape |-> [sh EXCEPT ![dim + 1] = d],
         data |-> [p \in 1..(outer * d * inner) |->
                     LET t == (p - 1) % inner
                         i == ((p - 1) \div inner) % d
                         o == (p - 1) \div (inner * d)
                     IN  shards[(i \div b) + 1].data[(o * b + (i % b)) * inner + t + 1]]]

\* C16: for a tensor T of the safetensors files, dim 0 or 1 (a dimension T
\* has) and a world_size that divides the extent of T along dim, the calls
\* get_sharded(name, dim, r, world_size) for r = 0 .. world_size-1 all succeed;
\* no element of T is in two of the shards, every element of T is in one, and
\* the shards concatenated along dim in the order of the ranks are T, shape,
\* dtype and elements.
C16_ShardsReconstruct ==
    (/\ last.op = "VarBuilder::get_sharded*"
     /\ KindOfLast = "SafeTensorWithRouting"
     /\ StHolds(last.path)
     /\ last.dim \in {0, 1}
     /\ last.dim < Len(StView(last.path).shape)
     /\ StView(last.path).shape[last.dim + 1] % last.world_size = 0) =>
        /\ \A r \in 1..last.world_size : last.res[r].ok
        /\ LET T == ViewLoad(StView(last.path), Heap[last.vb.data].device)
               shards == [r \in 1..last.world_size |-> last.res[r].val]
           IN  /\ \A r, q \in 1..last.world_size :
                     r # q => Elems(shards[r]) \cap Elems(shards[q]) = {}
               /\ UNION {Elems(shards[r]) : r \in 1..last.world_size} = Elems(T)
               /\ \A r \in 1..last.world_size :
                     /\ shards[r].dtype = T.dtype
                     /\ shards[r].shape = shards[1].shape
                     /\ Len(shards[r].data) * last.world_size = Len(T.data)
               /\ Cat(shards, last.dim).shape = T.shape
               /\ Cat(shards, last.dim).data = T.data

\* The two halves of the columns of a tensor of two rows.
C16_Witness ==
    /\ last.op = "VarBuilder::get_sharded*"
    /\ KindOfLast = "SafeTensorWithRouting"
    /\ StHolds(last.path)
    /\ StView(last.path).shape = <<2, 4>>
    /\ last.dim = 1
    /\ last.world_size = 2
    /\ \A r \in 1..2 : last.res[r].ok

\* C17: a get_sharded that succeeds with dim 0 or 1 and rank < world_size was
\* made on a tensor of the safetensors files and returns, with block_size the
\* extent along dim divided by world_size, a tensor of the stored dtype whose
\* shape is the stored shape with the extent of dim replaced by block_size and
\* whose elements are the stored elements with an index along dim from
\* rank * block_size up to, not including, (rank + 1) * block_size, in the order
\* they are stored in; it is on the device of the VarBuilder.
C17_ShardIsBlock ==
    (IsSharded /\ last.res.ok /\ last.dim \in {0, 1} /\ last.rank < last.world_size) =>
        /\ KindOfLast = "SafeTensorWithRouting"
        /\ StHolds(last.path)
        /\ LET view == StView(last.path)
               T == ViewLoad(view, Cpu)
               sh == view.shape
               d == sh[last.dim + 1]
               block_size == d \div last.world_size
               inner == Prod(sh, last.dim + 2, Len(sh))
               got == last.res.val
           IN  /\ got.dtype = view.dtype
               /\ got.shape = [sh EXCEPT ![last.dim + 1] = block_size]
               /\ got.device = Heap[last.vb.data].device
               /\ Len(got.data) = Prod(got.shape, 1, Len(got.shape))
               /\ \A q \in 1..Len(got.data) :
                     LET t == (q - 1) % inner
                         i == ((q - 1) \div inner) % block_size
                         o == (q - 1) \div (inner * block_size)
                     IN  got.data[q]
                            = T.data[(o * d + last.rank * block_size + i) * inner + t + 1]

\* The second half of the columns of a tensor stored with another dtype than
\* the one of the VarBuilder.
C17_Witness ==
    /\ IsSharded
    /\ last.res.ok
    /\ last.dim = 1
    /\ last.rank = 1
    /\ last.world_size = 2
    /\ Len(last.res.val.shape) = 2
    /\ last.res.val.shape[1] > 1
    /\ last.res.val.dtype # Heap[last.vb.data].dtype

----------------------------------------------------------------------------
(* Devices: same_device on every pair of the devices of a machine.         *)

\* Largest ordinal of a GPU.
MaxOrdinal == 4

\* The host, and two CudaDevices made for every GPU.
AllDevices == {Cpu} \cup {NewCuda(o, n) : o \in 0..MaxOrdinal, n \in 1..2}

DeviceSameDevice(lhs, rhs) ==
    /\ last' = [op |-> "Device::same_device", lhs |-> lhs, rhs |-> rhs, pre |-> stores,
                res |-> SameDevice(lhs, rhs)]
    /\ UNCHANGED <<stores, files, handles, threads, mutex>>

NextDevices == \E lhs, rhs \in AllDevices : DeviceSameDevice(lhs, rhs)

SpecDevices == InitStores /\ [][NextDevices]_vars

----------------------------------------------------------------------------
(* Threads on one store that holds "w" and "x"; a VarBuilder over the      *)
(* store has been made, and the checkpoint file holds "w" and "x".         *)

InitThreads ==
    /\ stores = [s \in StoreIds |->
                    IF s = "A"
                    THEN [k \in {"w", "x"} |->
                            InitVar(Const(0), IF k = "w" THEN 1 ELSE 2, <<2>>, "U8", Cpu)]
                    ELSE EmptyMap]
    /\ files = [f \in {"f", "g"} |-> IF f = "f" THEN CkptFile ELSE NoFile]
    /\ handles = <<Root("varmap")>>
    /\ last = [op |-> "none"]
    /\ threads = [t \in Threads |-> Idle]
    /\ mutex = [s \in StoreIds |-> Free]

NextThreads ==
    \/ \E t \in Threads, call \in ThreadCalls : ThreadCall(t, call)
    \/ \E t \in Threads : LoadOpen(t)
    \/ \E t \in Threads : Lock(t)
    \/ \E t \in Threads : Unlock(t)
    \/ \E t \in Threads : GetLookup(t)
    \/ \E t \in Threads : GetInit(t)
    \/ \E t \in Threads : GetInsert(t)
    \/ \E t \in Threads : VBGetLookup(t)
    \/ \E t \in Threads : AllVarsCollect(t)
    \/ \E t \in Threads : SaveWrite(t)
    \/ \E t \in Threads : LoadStep(t)

SpecThreads == InitThreads /\ [][NextThreads]_vars

\* The thread is between taking the lock and dropping it.
Critical(t) ==
    threads[t].pc \in {"lookup", "init", "insert", "collect", "write", "loop", "unlock"}

Returned(t) == threads[t].pc = "done"

\* The threads that ran init for a path.
Makers(path) == {t \in Threads : IsGet(t) /\ threads[t].path = path /\ threads[t].made}

\* C19: when threads call VarMap.get, or get_or_init on a VarMap-backed
\* VarBuilder, at the same time for one absent path and one shape, then in
\* every interleaving one thread at most runs init for the path, the path gets
\* exactly one Variable, which is never replaced, and every caller is returned
\* the tensor of that Variable: the thread that created it the tensor its init
\* filled, the others the same one.  Between the lookup and the insertion of a
\* call no other thread is inside a call on the store.
C19_OneVariablePerPath ==
    /\ \A t, u \in Threads :
          (Critical(t) /\ Critical(u) /\ threads[t].store = threads[u].store) => t = u
    /\ \A t \in Threads :
          (IsGet(t) /\ threads[t].pc \in {"init", "insert"}) =>
              /\ mutex[threads[t].store] = t
              /\ threads[t].path \notin DOMAIN stores[threads[t].store]
    /\ Cardinality(Makers("y")) <= 1
    /\ Makers("w") = {}
    /\ "y" \in DOMAIN stores["A"] =>
          \E t \in Makers("y") :
              /\ threads[t].pc \in {"unlock", "done"}
              /\ stores["A"]["y"].id = threads[t].res.val.id
              /\ stores["A"]["y"].id = 3
              /\ Filled(threads[t].res.val, <<2>>, threads[t].init.v)
    /\ \A j, k \in DOMAIN stores["A"] : stores["A"][j].id = stores["A"][k].id => j = k
    /\ \A t \in Threads :
          (IsGet(t) /\ Returned(t)) =>
              /\ threads[t].res.ok
              /\ threads[t].path \in DOMAIN stores["A"]
              /\ threads[t].res.val.id = stores["A"][threads[t].path].id
              /\ threads[t].res.val.shape = stores["A"][threads[t].path].shape
              /\ threads[t].res.val.dtype = stores["A"][threads[t].path].dtype
              /\ threads[t].res.val.device = stores["A"][threads[t].path].device
    /\ \A t, u \in Threads :
          (IsGet(t) /\ IsGet(u) /\ Returned(t) /\ Returned(u)
                /\ threads[t].path = threads[u].path) =>
              threads[t].res.val.id = threads[u].res.val.id

\* Two threads asked for the absent path with different inits at the same
\* time; both have returned, and the one that did not create the Variable
\* holds the tensor the other's init filled.
C19_Witness ==
    \E t, u \in Threads :
        /\ IsGet(t) /\ IsGet(u)
        /\ threads[t].path = "y" /\ threads[u].path = "y"
        /\ threads[t].init # threads[u].init
        /\ Returned(t) /\ Returned(u)
        /\ threads[t].made /\ ~threads[u].made
        /\ threads[u].res.val = threads[t].res.val
        /\ threads[u].res.val.data[1] # threads[u].init.v

\* No call on the store saw it in the middle of a load: the lookup of a get or
\* of a VarBuilder, the collection of all_vars, the writing of save.
NothingSeenMidLoad ==
    \A t \in Threads : "mid" \in DOMAIN threads[t] => ~threads[t].mid

----------------------------------------------------------------------------
(* Handles: the VarMap of the program, a clone of it, and the VarBuilders  *)
(* made from it, all used in turn.                                         *)

VarMapHandles == {"varmap", "varmap.clone()"}

\* The store a handle works on: #[derive(Clone)] clones the Arc, not the map.
ArcOf(h) == "A"

\* What each handle declares when it calls get, so that a Variable tells which
\* handle created it: the VarMap creates on the GPU, its clone creates U32.
HandleArgs(h) ==
    IF h = "varmap" THEN <<(<<2>>), "U8", Cuda(0), Const(0)>>
    ELSE <<(<<2>>), "U32", Cpu, Const(1)>>

NextHandles ==
    \/ \E h \in VarMapHandles, path \in GetPaths :
          VarMapGet(ArcOf(h), HandleArgs(h)[1], path, HandleArgs(h)[4],
                    HandleArgs(h)[2], HandleArgs(h)[3])
    \/ \E h \in VarMapHandles : VarMapAllVars(ArcOf(h))
    \/ \E h \in VarMapHandles : VarMapSave(ArcOf(h), "f")
    \/ \E h \in VarMapHandles : VarMapLoad(ArcOf(h), "f")
    \/ VBNew("varmap")
    \/ VBPushPrefix(1, "a")
    \/ \E k \in 1..2, s \in Shapes : VBGet(k, s, "w")
    \/ \E k \in 1..2 : VBGetOrInit(k, <<2>>, "w", Const(0))

SpecHandles == Init /\ [][NextHandles]_vars

\* C21: the VarMap, its clone and the VarBuilders made from it work on one
\* map.  Whatever handle a call goes through, it sees every Variable created
\* so far, through whatever handle, under the path and with the value it has
\* now: get and the get of a VarBuilder return it, all_vars lists it, save
\* writes it, load overwrites it; what get_or_init creates through a
\* VarBuilder is in that map.  No second map is ever filled.
C21_HandlesShareOneMap ==
    /\ stores["B"] = EmptyMap
    /\ IsVarMapCall => last.store = "A"
    /\ last.op = "VarMap::get" =>
          /\ (last.path \in DOMAIN last.pre["A"]
                /\ last.pre["A"][last.path].shape = last.shape) =>
                last.res = Ok(last.pre["A"][last.path])
          /\ last.path \notin DOMAIN last.pre["A"] =>
                /\ last.path \in DOMAIN stores["A"]
                /\ last.res = Ok(stores["A"][last.path])
    /\ last.op = "VarMap::all_vars" =>
          {last.res[i] : i \in 1..Len(last.res)} = {stores["A"][k] : k \in DOMAIN stores["A"]}
    /\ (last.op = "VarMap::save" /\ last.res.ok) => Holds(FileOfLast, stores["A"])
    /\ (last.op = "VarMap::load" /\ last.res.ok) =>
          \A k \in DOMAIN last.pre["A"] :
              /\ k \in DOMAIN FileOfLast
              /\ stores["A"][k] = Loaded(last.pre["A"][k], FileOfLast[k])
    /\ (last.op = "VarBuilder::get" /\ KindOfLast = "VarMap") =>
          /\ (last.path \in DOMAIN last.pre["A"]
                /\ last.pre["A"][last.path].shape = last.shape) =>
                last.res = Ok(last.pre["A"][last.path])
          /\ last.path \notin DOMAIN last.pre["A"] => ~last.res.ok
    /\ (last.op = "VarBuilder::get_or_init" /\ KindOfLast = "VarMap") =>
          /\ (last.path \in DOMAIN last.pre["A"]
                /\ last.pre["A"][last.path].shape = last.shape) =>
                last.res = Ok(last.pre["A"][last.path])
          /\ last.path \notin DOMAIN last.pre["A"] =>
                /\ last.path \in DOMAIN stores["A"]
                /\ last.res = Ok(stores["A"][last.path])

\* A get through the pushed VarBuilder returned the Variable that the clone
\* created, while the store also holds one created by the VarMap itself whose
\* value a load has replaced.
C21_Witness ==
    /\ last.op = "VarBuilder::get"
    /\ KindOfLast = "VarMap"
    /\ last.vb.path # <<>>
    /\ last.res.ok
    /\ last.res.val.dtype = "U32"
    /\ "w" \in DOMAIN stores["A"]
    /\ stores["A"]["w"].device = Cuda(0)
    /\ stores["A"]["w"].data = <<9, 9>>

\* C22: get_sharded on a VarBuilder over safetensors files returns, for every
\* tensor name, dim, rank and world_size: a tensor or an error value, never an
\* abort of the call.
C22_ShardedAlwaysReturns ==
    (IsSharded /\ KindOfLast = "SafeTensorWithRouting") =>
        (last.res.ok \/ last.res.err.kind # "Panic")

----------------------------------------------------------------------------
(* The routing map of a VarBuilder over safetensors files.                 *)

\* The lists of containers a VarBuilder can be built over: none, one, or two
\* of the containers above in either order, or the same one twice.
ContainerLists ==
    LET orders == UNION {[1..n -> 1..Len(StContainers)] : n \in 0..Len(StContainers)}
    IN  {[i \in DOMAIN o |-> StContainers[o[i]]] : o \in orders}

\* A routing map is right for a list of containers: it has the names of all
\* of them and no other, and sends each to the last container that holds it.
RoutedRight(routing, cs) ==
    /\ DOMAIN routing = UNION {DOMAIN cs[i] : i \in 1..Len(cs)}
    /\ \A k \in DOMAIN routing :
          /\ routing[k] \in 0..(Len(cs) - 1)
          /\ k \in DOMAIN cs[routing[k] + 1]
          /\ \A j \in 1..Len(cs) : k \in DOMAIN cs[j] => j - 1 <= routing[k]

\* C23: the routing map of from_safetensors has exactly the names of the
\* containers, each sent to a container that holds it, the one of highest
\* index when several do; so get and get_sharded on a name some container
\* holds never answer CannotFindTensor, and what they return or refuse comes
\* from the view of that last container.
C23_RoutingToLastHolder ==
    /\ \A cs \in ContainerLists :
          RoutedRight(FromSafetensors(cs, "U8", Cpu).tensors.routing, cs)
    /\ (/\ last.op \in {"VarBuilder::get", "VarBuilder::get_sharded"}
        /\ KindOfLast = "SafeTensorWithRouting"
        /\ StHolds(last.path)) =>
          /\ last.res.ok \/ last.res.err.kind \notin {"CannotFindTensor", "SafeTensor"}
          /\ last.op = "VarBuilder::get" =>
                LET data == Heap[last.vb.data]
                    t == ToDType(ViewLoad(StView(last.path), data.device), data.dtype)
                IN  last.res = IF t.shape = last.shape THEN Ok(t)
                               ELSE Err(UnexpectedShape(last.path, last.shape, t.shape))
          /\ last.op = "VarBuilder::get_sharded" =>
                /\ (last.res.ok /\ last.world_size = 1) =>
                      /\ last.raw = StView(last.path).data
                      /\ last.res.val.shape = StView(last.path).shape
                /\ (~last.res.ok /\ last.res.err.kind = "ShapeMismatchSplit") =>
                      last.res.err.shape = StView(last.path).shape

\* A get of "w", which both containers hold, returned the tensor of the
\* second one.
C23_Witness ==
    /\ last.op = "VarBuilder::get"
    /\ KindOfLast = "SafeTensorWithRouting"
    /\ last.path = "w"
    /\ "w" \in DOMAIN StContainers[1]
    /\ last.res.ok
    /\ last.res.val.shape = StContainers[2]["w"].shape
    /\ last.res.val.data = <<258, 3>>

====
